---- MODULE Spec2Model ----
(***************************************************************************)
(* Model of scripts/check_invisible_chars.py: the codepoint classifier,    *)
(* the line renderer, the text scanner, the binary heuristic, the unified  *)
(* diff parser and the scan orchestrator (main).                           *)
(*                                                                         *)
(* Text is a sequence of codepoints (naturals); bytes are naturals in      *)
(* 0..255.  None stands for Python's None.                                 *)
(***************************************************************************)
EXTENDS Integers, Sequences, FiniteSets, TLC

None == "None"

(***************************************************************************)
(* Text helpers: printable ASCII written as one-character strings (the     *)
(* grave accent, which a string literal cannot hold, by its name).         *)
(***************************************************************************)
AsciiPrintable ==
    << " ", "!", "\"", "#", "$", "%", "&", "'", "(", ")", "*", "+",
       ",", "-", ".", "/", "0", "1", "2", "3", "4", "5", "6", "7",
       "8", "9", ":", ";", "<", "=", ">", "?", "@", "A", "B", "C",
       "D", "E", "F", "G", "H", "I", "J", "K", "L", "M", "N", "O",
       "P", "Q", "R", "S", "T", "U", "V", "W", "X", "Y", "Z", "[",
       "\\", "]", "^", "_", "grave", "a", "b", "c", "d", "e", "f", "g",
       "h", "i", "j", "k", "l", "m", "n", "o", "p", "q", "r", "s",
       "t", "u", "v", "w", "x", "y", "z", "{", "|", "}", "~" >>

\* ord() of a printable ASCII character
Ord(s) == 31 + (CHOOSE i \in 1..Len(AsciiPrintable) : AsciiPrintable[i] = s)

\* a str literal, given character by character
Str(cs) == [i \in 1..Len(cs) |-> Ord(cs[i])]

\* the characters of s at positions a..b, clipped to s as a Python slice is
SubStr(s, a, b) ==
    LET lo == IF a < 1 THEN 1 ELSE a
        hi == IF b > Len(s) THEN Len(s) ELSE b
    IN  IF lo > hi THEN <<>> ELSE SubSeq(s, lo, hi)

StartsWith(s, prefix) ==
    /\ Len(s) >= Len(prefix)
    /\ SubStr(s, 1, Len(prefix)) = prefix

RECURSIVE ConcatRange(_, _, _)
\* seqs[lo] \o ... \o seqs[hi], by halves
ConcatRange(seqs, lo, hi) ==
    IF lo > hi THEN <<>>
    ELSE IF lo = hi THEN seqs[lo]
    ELSE ConcatRange(seqs, lo, (lo + hi) \div 2)
             \o ConcatRange(seqs, ((lo + hi) \div 2) + 1, hi)

\* the concatenation of a sequence of sequences
Concat(seqs) == ConcatRange(seqs, 1, Len(seqs))

RECURSIVE FoldRange(_, _, _, _, _)
\* a loop `for x in s[lo..hi]: st = Step(st, x)`, by halves; st.raised is
\* the exception that ended the loop, None while it runs
FoldRange(Step(_, _), st, s, lo, hi) ==
    IF lo > hi THEN st
    ELSE IF lo = hi THEN Step(st, s[lo])
    ELSE LET left == FoldRange(Step, st, s, lo, (lo + hi) \div 2)
         IN  IF left.raised # None THEN left
             ELSE FoldRange(Step, left, s, ((lo + hi) \div 2) + 1, hi)

\* the least element of a non-empty set of integers
Least(S) == CHOOSE x \in S : \A y \in S : x <= y

(***************************************************************************)
(* The Unicode character database, restricted to the codepoints of Chars.  *)
(***************************************************************************)
Chars ==
    (0..160) \cup {173} \cup {768} \cup (846..848) \cup {1564} \cup {5760} \cup
    {6158} \cup (8192..8207) \cup (8232..8239) \cup (8287..8292) \cup {12288} \cup
    (65023..65040) \cup {65279} \cup {65533} \cup {917505} \cup {917536} \cup
    (917759..917760) \cup (917999..918000) \cup {128512}

\* unicodedata.category(ch)
category(ch) ==
    CASE ch \in 0..31 -> "Cc"
      [] ch \in 32..32 -> "Zs"
      [] ch \in 33..35 -> "Po"
      [] ch \in 36..36 -> "Sc"
      [] ch \in 37..39 -> "Po"
      [] ch \in 40..40 -> "Ps"
      [] ch \in 41..41 -> "Pe"
      [] ch \in 42..42 -> "Po"
      [] ch \in 43..43 -> "Sm"
      [] ch \in 44..44 -> "Po"
      [] ch \in 45..45 -> "Pd"
      [] ch \in 46..47 -> "Po"
      [] ch \in 48..57 -> "Nd"
      [] ch \in 58..59 -> "Po"
      [] ch \in 60..62 -> "Sm"
      [] ch \in 63..64 -> "Po"
      [] ch \in 65..90 -> "Lu"
      [] ch \in 91..91 -> "Ps"
      [] ch \in 92..92 -> "Po"
      [] ch \in 93..93 -> "Pe"
      [] ch \in 94..94 -> "Sk"
      [] ch \in 95..95 -> "Pc"
      [] ch \in 96..96 -> "Sk"
      [] ch \in 97..122 -> "Ll"
      [] ch \in 123..123 -> "Ps"
      [] ch \in 124..124 -> "Sm"
      [] ch \in 125..125 -> "Pe"
      [] ch \in 126..126 -> "Sm"
      [] ch \in 127..159 -> "Cc"
      [] ch \in 160..160 -> "Zs"
      [] ch \in 173..173 -> "Cf"
      [] ch \in 768..768 -> "Mn"
      [] ch \in 846..848 -> "Mn"
      [] ch \in 1564..1564 -> "Cf"
      [] ch \in 5760..5760 -> "Zs"
      [] ch \in 6158..6158 -> "Cf"
      [] ch \in 8192..8202 -> "Zs"
      [] ch \in 8203..8207 -> "Cf"
      [] ch \in 8232..8232 -> "Zl"
      [] ch \in 8233..8233 -> "Zp"
      [] ch \in 8234..8238 -> "Cf"
      [] ch \in 8239..8239 -> "Zs"
      [] ch \in 8287..8287 -> "Zs"
      [] ch \in 8288..8292 -> "Cf"
      [] ch \in 12288..12288 -> "Zs"
      [] ch \in 65023..65023 -> "So"
      [] ch \in 65024..65039 -> "Mn"
      [] ch \in 65040..65040 -> "Po"
      [] ch \in 65279..65279 -> "Cf"
      [] ch \in 65533..65533 -> "So"
      [] ch \in 917505..917505 -> "Cf"
      [] ch \in 917536..917536 -> "Cf"
      [] ch \in 917759..917759 -> "Cn"
      [] ch \in 917760..917760 -> "Mn"
      [] ch \in 917999..917999 -> "Mn"
      [] ch \in 918000..918000 -> "Cn"
      [] ch \in 128512..128512 -> "So"

\* the codepoints for which str.isspace() is true
SpaceChars ==
    (9..13) \cup (28..32) \cup {133, 160, 5760} \cup (8192..8202)
        \cup {8232, 8233, 8239, 8287, 12288}

isspace(ch) == ch \in SpaceChars

\* unicodedata.name(ch, "UNKNOWN")
name(ch) ==
    CASE ch = 160 -> "NO-BREAK SPACE"
      [] ch = 173 -> "SOFT HYPHEN"
      [] ch = 768 -> "COMBINING GRAVE ACCENT"
      [] ch = 846 -> "COMBINING UPWARDS ARROW BELOW"
      [] ch = 847 -> "COMBINING GRAPHEME JOINER"
      [] ch = 848 -> "COMBINING RIGHT ARROWHEAD ABOVE"
      [] ch = 1564 -> "ARABIC LETTER MARK"
      [] ch = 5760 -> "OGHAM SPACE MARK"
      [] ch = 6158 -> "MONGOLIAN VOWEL SEPARATOR"
      [] ch = 8192 -> "EN QUAD"
      [] ch = 8193 -> "EM QUAD"
      [] ch = 8194 -> "EN SPACE"
      [] ch = 8195 -> "EM SPACE"
      [] ch = 8196 -> "THREE-PER-EM SPACE"
      [] ch = 8197 -> "FOUR-PER-EM SPACE"
      [] ch = 8198 -> "SIX-PER-EM SPACE"
      [] ch = 8199 -> "FIGURE SPACE"
      [] ch = 8200 -> "PUNCTUATION SPACE"
      [] ch = 8201 -> "THIN SPACE"
      [] ch = 8202 -> "HAIR SPACE"
      [] ch = 8203 -> "ZERO WIDTH SPACE"
      [] ch = 8204 -> "ZERO WIDTH NON-JOINER"
      [] ch = 8205 -> "ZERO WIDTH JOINER"
      [] ch = 8206 -> "LEFT-TO-RIGHT MARK"
      [] ch = 8207 -> "RIGHT-TO-LEFT MARK"
      [] ch = 8232 -> "LINE SEPARATOR"
      [] ch = 8233 -> "PARAGRAPH SEPARATOR"
      [] ch = 8234 -> "LEFT-TO-RIGHT EMBEDDING"
      [] ch = 8235 -> "RIGHT-TO-LEFT EMBEDDING"
      [] ch = 8236 -> "POP DIRECTIONAL FORMATTING"
      [] ch = 8237 -> "LEFT-TO-RIGHT OVERRIDE"
      [] ch = 8238 -> "RIGHT-TO-LEFT OVERRIDE"
      [] ch = 8239 -> "NARROW NO-BREAK SPACE"
      [] ch = 8287 -> "MEDIUM MATHEMATICAL SPACE"
      [] ch = 8288 -> "WORD JOINER"
      [] ch = 8289 -> "FUNCTION APPLICATION"
      [] ch = 8290 -> "INVISIBLE TIMES"
      [] ch = 8291 -> "INVISIBLE SEPARATOR"
      [] ch = 8292 -> "INVISIBLE PLUS"
      [] ch = 12288 -> "IDEOGRAPHIC SPACE"
      [] ch = 65023 -> "ARABIC LIGATURE AZZA WA JALL"
      [] ch = 65024 -> "VARIATION SELECTOR-1"
      [] ch = 65025 -> "VARIATION SELECTOR-2"
      [] ch = 65026 -> "VARIATION SELECTOR-3"
      [] ch = 65027 -> "VARIATION SELECTOR-4"
      [] ch = 65028 -> "VARIATION SELECTOR-5"
      [] ch = 65029 -> "VARIATION SELECTOR-6"
      [] ch = 65030 -> "VARIATION SELECTOR-7"
      [] ch = 65031 -> "VARIATION SELECTOR-8"
      [] ch = 65032 -> "VARIATION SELECTOR-9"
      [] ch = 65033 -> "VARIATION SELECTOR-10"
      [] ch = 65034 -> "VARIATION SELECTOR-11"
      [] ch = 65035 -> "VARIATION SELECTOR-12"
      [] ch = 65036 -> "VARIATION SELECTOR-13"
      [] ch = 65037 -> "VARIATION SELECTOR-14"
      [] ch = 65038 -> "VARIATION SELECTOR-15"
      [] ch = 65039 -> "VARIATION SELECTOR-16"
      [] ch = 65040 -> "PRESENTATION FORM FOR VERTICAL COMMA"
      [] ch = 65279 -> "ZERO WIDTH NO-BREAK SPACE"
      [] ch = 65533 -> "REPLACEMENT CHARACTER"
      [] ch = 917505 -> "LANGUAGE TAG"
      [] ch = 917536 -> "TAG SPACE"
      [] ch = 917760 -> "VARIATION SELECTOR-17"
      [] ch = 917999 -> "VARIATION SELECTOR-256"
      [] ch = 128512 -> "GRINNING FACE"
      [] OTHER -> "UNKNOWN"

(***************************************************************************)
(* CodepointClassifier                                                     *)
(***************************************************************************)
ALLOWED_WHITESPACE == {32, 9, 10, 13}

VARIATION_SELECTOR_RANGES == << <<65024, 65039>>, <<917760, 917999>> >>

_is_in_variation_selector_range(codepoint) ==
    \E r \in 1..Len(VARIATION_SELECTOR_RANGES) :
        /\ VARIATION_SELECTOR_RANGES[r][1] <= codepoint
        /\ codepoint <= VARIATION_SELECTOR_RANGES[r][2]

\* _is_forbidden_char without its first test, the allow-list of line 57
_is_forbidden_char_no_allowlist(ch) ==
    IF isspace(ch) THEN TRUE
    ELSE IF _is_in_variation_selector_range(ch) THEN TRUE
    ELSE IF category(ch) \in {"Cc", "Cf"} THEN TRUE
    ELSE IF ch \in {847} THEN TRUE
    ELSE FALSE

_is_forbidden_char(ch) ==
    IF ch \in ALLOWED_WHITESPACE THEN FALSE
    ELSE IF isspace(ch) THEN TRUE
    ELSE IF _is_in_variation_selector_range(ch) THEN TRUE
    ELSE IF category(ch) \in {"Cc", "Cf"} THEN TRUE
    ELSE IF ch \in {847} THEN TRUE
    ELSE FALSE

(***************************************************************************)
(* LineRenderer                                                            *)
(***************************************************************************)
HexDigits == Str(<<"0","1","2","3","4","5","6","7","8","9","a","b","c","d","e","f">>)

RECURSIVE Hex(_, _)
\* n in lower-case hexadecimal, zero-padded to width digits
Hex(n, width) ==
    IF width = 0 THEN <<>>
    ELSE Hex(n \div 16, width - 1) \o <<HexDigits[(n % 16) + 1]>>

\* one character under str.encode("unicode_escape")
EscapeChar(ch) ==
    IF ch = 92 THEN Str(<<"\\", "\\">>)
    ELSE IF ch = 9 THEN Str(<<"\\", "t">>)
    ELSE IF ch = 10 THEN Str(<<"\\", "n">>)
    ELSE IF ch = 13 THEN Str(<<"\\", "r">>)
    ELSE IF ch >= 32 /\ ch < 127 THEN <<ch>>
    ELSE IF ch < 256 THEN Str(<<"\\", "x">>) \o Hex(ch, 2)
    ELSE IF ch < 65536 THEN Str(<<"\\", "u">>) \o Hex(ch, 4)
    ELSE Str(<<"\\", "U">>) \o Hex(ch, 8)

\* str.encode("unicode_escape").decode("ascii")
UnicodeEscape(line) == Concat([i \in 1..Len(line) |-> EscapeChar(line[i])])

DEFAULT_MAX_LEN == 240

\* rendered[: n] for any integer n, as Python slices
SliceTo(s, n) ==
    IF n >= 0 THEN SubStr(s, 1, IF n < Len(s) THEN n ELSE Len(s))
    ELSE SubStr(s, 1, Len(s) + n)

_render_line(line, max_len) ==
    LET rendered == UnicodeEscape(line)
    IN  IF Len(rendered) > max_len
        THEN SliceTo(rendered, max_len - 3) \o Str(<<".", ".", ".">>)
        ELSE rendered

(***************************************************************************)
(* TextScanner                                                             *)
(***************************************************************************)
\* the line boundaries of str.splitlines()
LineBreaks == {10, 11, 12, 13, 28, 29, 30, 133, 8232, 8233}

\* one character of str.splitlines(): acc holds the finished lines, cur
\* the line being read, cr whether the last character was a carriage
\* return (a line feed right after it belongs to the same line break)
SplitStep(st, c) ==
    IF c = 10 /\ st.cr THEN [st EXCEPT !.cr = FALSE]
    ELSE IF c \in LineBreaks
         THEN [st EXCEPT !.acc = Append(st.acc, st.cur), !.cur = <<>>, !.cr = (c = 13)]
    ELSE [st EXCEPT !.cur = Append(st.cur, c), !.cr = FALSE]

\* str.splitlines()
splitlines(text) ==
    LET final == FoldRange(SplitStep,
                           [acc |-> <<>>, cur |-> <<>>, cr |-> FALSE, raised |-> None],
                           text, 1, Len(text))
    IN  IF final.cur # <<>> THEN Append(final.acc, final.cur) ELSE final.acc

Finding(path, line, col, ch, rendered) ==
    [path |-> path, line |-> line, col |-> col, codepoint |-> ch,
     name |-> name(ch), category |-> category(ch), rendered_line |-> rendered]

\* an inner loop that would count columns from 0
ScanLine_from_zero(path, line, i) ==
    Concat([j \in 1..Len(line) |->
               IF _is_forbidden_char(line[j])
               THEN <<Finding(path, i, j - 1, line[j], _render_line(line, DEFAULT_MAX_LEN))>>
               ELSE <<>>])

\* the inner loop of _scan_text over the line numbered i
ScanLine(path, line, i) ==
    Concat([j \in 1..Len(line) |->
               IF _is_forbidden_char(line[j])
               THEN <<Finding(path, i, j, line[j], _render_line(line, DEFAULT_MAX_LEN))>>
               ELSE <<>>])

\* a _scan_text that would report the last line first
_scan_text_last_line_first(path, text, start_line) ==
    LET lines == splitlines(text)
    IN  Concat([k \in 1..Len(lines) |->
                   ScanLine(path, lines[Len(lines) + 1 - k], start_line + Len(lines) - k)])

_scan_text(path, text, start_line) ==
    LET lines == splitlines(text)
    IN  Concat([k \in 1..Len(lines) |-> ScanLine(path, lines[k], start_line + k - 1)])

(***************************************************************************)
(* BinaryHeuristic                                                         *)
(***************************************************************************)
SAMPLE_SIZE == 4096

IsNonText(b) == b < 9 \/ (13 < b /\ b < 32) \/ b = 127

\* the number of non-text bytes in sample
CountNonText(sample) ==
    Cardinality({k \in 1..Len(sample) : IsNonText(sample[k])})

\* a threshold test that would also accept a fraction of exactly 0.3
ExceedsThreshold_or_equals(nontext, total) == 10 * nontext >= 3 * total

\* nontext / len(sample) > 0.3; both sides are exact for samples this short
ExceedsThreshold(nontext, total) == 10 * nontext > 3 * total

_is_probably_binary(data) ==
    IF \E k \in 1..Len(data) : data[k] = 0 THEN TRUE
    ELSE LET sample == SliceTo(data, SAMPLE_SIZE)
         IN  IF sample = <<>> THEN FALSE
             ELSE ExceedsThreshold(CountNonText(sample), Len(sample))

(***************************************************************************)
(* bytes.decode("utf-8", errors): the text, or UnicodeDecodeError under    *)
(* errors = "strict".  An ill-formed sequence is replaced by U+FFFD, one   *)
(* per maximal well-formed prefix, as CPython does.                        *)
(***************************************************************************)
UnicodeDecodeError == "UnicodeDecodeError"

IsCont(b) == b >= 128 /\ b <= 191

\* the bytes allowed in second position after lead byte b
SecondOk(b, c) ==
    CASE b = 224 -> c >= 160 /\ c <= 191
      [] b = 237 -> c >= 128 /\ c <= 159
      [] b = 240 -> c >= 144 /\ c <= 191
      [] b = 244 -> c >= 128 /\ c <= 143
      [] OTHER   -> IsCont(c)

\* the length of the sequence a lead byte announces, 0 for an invalid lead
SeqLen(b) ==
    IF b < 128 THEN 1
    ELSE IF b >= 194 /\ b <= 223 THEN 2
    ELSE IF b >= 224 /\ b <= 239 THEN 3
    ELSE IF b >= 240 /\ b <= 244 THEN 4
    ELSE 0

\* how many bytes from position i on form a well-formed prefix
GoodPrefix(data, i) ==
    LET n == SeqLen(data[i])
        has(k) == i + k <= Len(data)
    IN  IF n <= 1 THEN n
        ELSE IF ~(has(1) /\ SecondOk(data[i], data[i + 1])) THEN 1
        ELSE IF n = 2 THEN 2
        ELSE IF ~(has(2) /\ IsCont(data[i + 2])) THEN 2
        ELSE IF n = 3 THEN 3
        ELSE IF ~(has(3) /\ IsCont(data[i + 3])) THEN 3
        ELSE 4

CodepointAt(data, i, n) ==
    CASE n = 1 -> data[i]
      [] n = 2 -> (data[i] - 192) * 64 + (data[i + 1] - 128)
      [] n = 3 -> (data[i] - 224) * 4096 + (data[i + 1] - 128) * 64
                      + (data[i + 2] - 128)
      [] n = 4 -> (data[i] - 240) * 262144 + (data[i + 1] - 128) * 4096
                      + (data[i + 2] - 128) * 64 + (data[i + 3] - 128)

RECURSIVE DecodeFrom(_, _, _, _)
DecodeFrom(data, i, errors, acc) ==
    IF i > Len(data) THEN acc
    ELSE LET n == SeqLen(data[i])
             g == GoodPrefix(data, i)
         IN  IF n > 0 /\ g = n
             THEN DecodeFrom(data, i + n, errors, Append(acc, CodepointAt(data, i, n)))
             ELSE IF errors = "strict" THEN UnicodeDecodeError
             ELSE DecodeFrom(data, i + (IF g = 0 THEN 1 ELSE g), errors,
                             Append(acc, 65533))

decode(data, errors) == DecodeFrom(data, 1, errors, <<>>)

\* one character under str.encode("utf-8")
EncodeChar(c) ==
    IF c < 128 THEN <<c>>
    ELSE IF c < 2048 THEN <<192 + (c \div 64), 128 + (c % 64)>>
    ELSE IF c < 65536
         THEN <<224 + (c \div 4096), 128 + ((c \div 64) % 64), 128 + (c % 64)>>
    ELSE <<240 + (c \div 262144), 128 + ((c \div 4096) % 64),
           128 + ((c \div 64) % 64), 128 + (c % 64)>>

\* str.encode("utf-8"), used to write the sample files
EncodeUtf8(str) == Concat([i \in 1..Len(str) |-> EncodeChar(str[i])])

(***************************************************************************)
(* DiffParser                                                              *)
(***************************************************************************)
ValueError == "ValueError"

\* how many consecutive occurrences of c start at position i of s
RunLen(s, i, c) ==
    Least({j \in i..(Len(s) + 1) : j > Len(s) \/ s[j] # c} \cup {Len(s) + 1}) - i

\* the result of a failed re.match
NoMatch == [matched |-> FALSE]

\* _DIFF_HEADER_RE.match(raw): NoMatch, or the groups old and new.  The lazy
\* `old` ends at the first space that leaves a non-empty `new`.
DiffHeaderMatch(raw) ==
    LET prefix == Str(<<"d","i","f","f"," ","-","-","g","i","t"," ">>)
        base   == Len(prefix)
        cuts   == {i \in (base + 2)..(Len(raw) - 1) : raw[i] = 32}
    IN  IF StartsWith(raw, prefix) /\ cuts # {}
        THEN LET i == CHOOSE c \in cuts : \A d \in cuts : c <= d
             IN  [matched |-> TRUE,
                  old |-> SubStr(raw, base + 1, i - 1),
                  new |-> SubStr(raw, i + 1, Len(raw))]
        ELSE NoMatch

\* the position after `\\d+` matched at position i (a backslash, then one
\* or more letters d, as the raw-string pattern spells it), 0 if no match
AfterBackslashD(s, i) ==
    IF i <= Len(s) /\ s[i] = 92 /\ RunLen(s, i + 1, 100) >= 1
    THEN i + 1 + RunLen(s, i + 1, 100)
    ELSE 0

\* the position after the optional `(?:,\\d+)?` tried at position i
AfterOptionalCount(s, i) ==
    IF i <= Len(s) /\ s[i] = 44 /\ AfterBackslashD(s, i + 1) # 0
    THEN AfterBackslashD(s, i + 1)
    ELSE i

\* _HUNK_RE.match(raw): NoMatch, or the group start
HunkMatch(raw) ==
    LET i1 == AfterBackslashD(raw, 5)
        i2 == AfterOptionalCount(raw, i1)
        k  == RunLen(raw, i2 + 1, 92)
        gs == i2 + k
        i4 == AfterBackslashD(raw, gs)
        i5 == AfterOptionalCount(raw, i4)
    IN  IF /\ StartsWith(raw, Str(<<"@","@"," ","-">>))
           /\ i1 # 0
           /\ i2 <= Len(raw) /\ raw[i2] = 32
           /\ k >= 2
           /\ i4 # 0
           /\ SubStr(raw, i5, i5 + 2) = Str(<<" ","@","@">>)
        THEN [matched |-> TRUE, start |-> SubStr(raw, gs, i4 - 1)]
        ELSE NoMatch

RECURSIVE DecimalValue(_)
DecimalValue(digits) ==
    IF digits = <<>> THEN 0
    ELSE 10 * DecimalValue(SubStr(digits, 1, Len(digits) - 1))
             + (digits[Len(digits)] - 48)

\* An Optional[int] is a sequence of at most one integer: NoInt is None
NoInt == <<>>

Box(n) == <<n>>

\* int(text) for the text of a regex group (no sign, blank or underscore):
\* the boxed value, or ValueError
int(text) ==
    IF text # <<>> /\ \A i \in 1..Len(text) : text[i] \in 48..57
    THEN Box(DecimalValue(text))
    ELSE ValueError

ShlexWhitespace == {32, 9, 13, 10}

\* One character of shlex.split in POSIX mode.  st is the lexer state (ws:
\* between tokens, a: in a word, sq / dq: inside quotes, esc: after a
\* backslash), est the state an escape returns to, tok the token read so
\* far, quoted whether the token had quotes, acc the finished tokens.
ShlexStep(lx, c) ==
    CASE lx.st = "ws" ->
           IF c \in ShlexWhitespace THEN lx
           ELSE IF c = 92 THEN [lx EXCEPT !.st = "esc", !.est = "a"]
           ELSE IF c = 39 THEN [lx EXCEPT !.st = "sq", !.quoted = TRUE]
           ELSE IF c = 34 THEN [lx EXCEPT !.st = "dq", !.quoted = TRUE]
           ELSE [lx EXCEPT !.st = "a", !.tok = <<c>>]
      [] lx.st = "a" ->
           IF c \in ShlexWhitespace
           THEN [lx EXCEPT !.st = "ws", !.tok = <<>>, !.quoted = FALSE,
                           !.acc = IF lx.tok # <<>> \/ lx.quoted
                                   THEN Append(lx.acc, lx.tok) ELSE lx.acc]
           ELSE IF c = 39 THEN [lx EXCEPT !.st = "sq", !.quoted = TRUE]
           ELSE IF c = 34 THEN [lx EXCEPT !.st = "dq", !.quoted = TRUE]
           ELSE IF c = 92 THEN [lx EXCEPT !.st = "esc", !.est = "a"]
           ELSE [lx EXCEPT !.tok = Append(lx.tok, c)]
      [] lx.st = "sq" ->
           IF c = 39 THEN [lx EXCEPT !.st = "a"]
           ELSE [lx EXCEPT !.tok = Append(lx.tok, c)]
      [] lx.st = "dq" ->
           IF c = 34 THEN [lx EXCEPT !.st = "a"]
           ELSE IF c = 92 THEN [lx EXCEPT !.st = "esc", !.est = "dq"]
           ELSE [lx EXCEPT !.tok = Append(lx.tok, c)]
      [] lx.st = "esc" ->
           [lx EXCEPT !.st = lx.est,
                      !.tok = IF lx.est = "dq" /\ c # 92 /\ c # 34
                              THEN lx.tok \o <<92, c>> ELSE Append(lx.tok, c)]

\* shlex.split(raw): the tokens, or ValueError for an open quote or a
\* trailing backslash
shlex_split(raw) ==
    LET final == FoldRange(ShlexStep,
                           [st |-> "ws", est |-> "a", tok |-> <<>>,
                            quoted |-> FALSE, acc |-> <<>>, raised |-> None],
                           raw, 1, Len(raw))
    IN  CASE final.st = "ws" -> final.acc
          [] final.st = "a"  -> IF final.tok # <<>> \/ final.quoted
                                THEN Append(final.acc, final.tok) ELSE final.acc
          [] OTHER           -> ValueError

\* the parser's local variables at the start of _parse_diff_added_lines;
\* raised is the exception that ended the call, if any
ParserInit ==
    [current_path |-> None, new_line |-> NoInt, rows |-> <<>>, raised |-> None]

\* current_path as a file header sets it, or ValueError
PathOf(parts, new) ==
    IF parts = ValueError THEN ValueError
    ELSE IF Len(parts) >= 4 THEN parts[4]
    ELSE new

\* parts = shlex.split(raw), then the choice of current_path
HeaderPath(raw, m) == PathOf(shlex_split(raw), m.new)

\* a file header that would leave new_line as the previous file's hunk set it
SetPath_keeps_new_line(st, path) ==
    IF path = ValueError
    THEN [st EXCEPT !.raised = ValueError]
    ELSE [st EXCEPT !.current_path = path]

\* the assignments after a file header: current_path = path, new_line = None
SetPath(st, path) ==
    IF path = ValueError
    THEN [st EXCEPT !.raised = ValueError]
    ELSE [st EXCEPT !.current_path = path, !.new_line = NoInt]

\* the assignment after a hunk header: new_line = int(m.group("start"))
SetNewLine(st, n) ==
    IF n = ValueError
    THEN [st EXCEPT !.raised = ValueError]
    ELSE [st EXCEPT !.new_line = n]

\* a loop body that would count a removed line as a line of the new file
ParseBodyLine_counts_removed(st, raw) ==
    IF st.current_path = None \/ st.new_line = NoInt THEN st
    ELSE IF StartsWith(raw, Str(<<"+">>))
    THEN [st EXCEPT !.rows = Append(st.rows,
                                    <<st.current_path, st.new_line[1],
                                      SubStr(raw, 2, Len(raw))>>),
                    !.new_line = Box(st.new_line[1] + 1)]
    ELSE IF StartsWith(raw, Str(<<"-">>)) \/ StartsWith(raw, Str(<<" ">>))
    THEN [st EXCEPT !.new_line = Box(st.new_line[1] + 1)]
    ELSE st

\* the loop body below the two pattern tests, lines 168-183
ParseBodyLine(st, raw) ==
    IF st.current_path = None \/ st.new_line = NoInt THEN st
    ELSE IF \/ StartsWith(raw, Str(<<"+","+","+"," ">>))
            \/ StartsWith(raw, Str(<<"-","-","-"," ">>)) THEN st
    ELSE IF StartsWith(raw, Str(<<"\\"," ","N","o"," ","n","e","w","l","i","n","e",
                                  " ","a","t"," ","e","n","d"," ","o","f"," ",
                                  "f","i","l","e">>)) THEN st
    ELSE IF StartsWith(raw, Str(<<"+">>))
    THEN [st EXCEPT !.rows = Append(st.rows,
                                    <<st.current_path, st.new_line[1],
                                      SubStr(raw, 2, Len(raw))>>),
                    !.new_line = Box(st.new_line[1] + 1)]
    ELSE IF StartsWith(raw, Str(<<"-">>)) THEN st
    ELSE IF StartsWith(raw, Str(<<" ">>))
    THEN [st EXCEPT !.new_line = Box(st.new_line[1] + 1)]
    ELSE st

\* the loop body, given the matches m and h of the two patterns on raw
ParseMatched(st, raw, m, h) ==
    IF m.matched THEN SetPath(st, HeaderPath(raw, m))
    ELSE IF h.matched THEN SetNewLine(st, int(h.start))
    ELSE ParseBodyLine(st, raw)

\* one iteration of the loop of _parse_diff_added_lines over the line raw
ParseLine(st, raw) == ParseMatched(st, raw, DiffHeaderMatch(raw), HunkMatch(raw))

\* `return rows`, or the exception that ended the loop
ParseResult(final) == IF final.raised # None THEN final.raised ELSE final.rows

\* the loop of _parse_diff_added_lines over lines
ParseLines(lines) == FoldRange(ParseLine, ParserInit, lines, 1, Len(lines))

\* _parse_diff_added_lines(diff_text): the rows, or ValueError
_parse_diff_added_lines(diff_text) == ParseResult(ParseLines(splitlines(diff_text)))

(***************************************************************************)
(* RepositoryGateway: what the git commands may answer.  A completed       *)
(* process is [returncode, stdout, stderr].                                *)
(***************************************************************************)
LF == <<10>>

\* the lines, each ended by a line feed
JoinLines(lines) == Concat([i \in 1..Len(lines) |-> lines[i] \o LF])

SeqsUpTo(S, n) == UNION {[1..k -> S] : k \in 0..n}

\* the most files one listing names
MaxFiles == 2

\* The working tree of the sample repository.  kind: what the resolved path
\* is; inside: whether it resolves to a place under repo_root; readable:
\* whether read_bytes succeeds; data: the bytes of the file.
TreeEntry(kind, inside, readable, data) ==
    [kind |-> kind, inside |-> inside, readable |-> readable, data |-> data]

FileNames ==
    {Str(<<"o","k">>), Str(<<"z","w">>), Str(<<"n","b">>), Str(<<"b","i","n">>), Str(<<"b","a","d">>), Str(<<"n","o">>), Str(<<"l","n">>), Str(<<"d">>)}

Tree(p) ==
    CASE p = Str(<<"o","k">>)  -> TreeEntry("file", TRUE, TRUE, EncodeUtf8(Str(<<"h","i">>) \o LF))
      [] p = Str(<<"z","w">>)  -> TreeEntry("file", TRUE, TRUE, EncodeUtf8(<<97, 8203, 98>>))
      [] p = Str(<<"n","b">>)  -> TreeEntry("file", TRUE, TRUE, EncodeUtf8(<<120, 10, 160, 8232, 65039>>))
      [] p = Str(<<"b","i","n">>) -> TreeEntry("file", TRUE, TRUE, <<97, 0>> \o EncodeUtf8(<<8203>>))
      [] p = Str(<<"b","a","d">>) -> TreeEntry("file", TRUE, TRUE, <<97, 255, 194, 160>>)
      [] p = Str(<<"n","o">>)  -> TreeEntry("file", TRUE, FALSE, EncodeUtf8(<<8203>>))
      [] p = Str(<<"l","n">>)  -> TreeEntry("file", FALSE, TRUE, EncodeUtf8(<<8203>>))
      [] p = Str(<<"d">>)   -> TreeEntry("dir", TRUE, FALSE, <<>>)
      [] OTHER     -> TreeEntry("absent", TRUE, FALSE, <<>>)

\* Path.is_file() of the resolved path
is_file(p) == Tree(p).kind = "file"

GitFailure(message) == [returncode |-> 128, stdout |-> <<>>, stderr |-> message]

GitSuccess(output) == [returncode |-> 0, stdout |-> output, stderr |-> <<>>]

\* git ls-files: a failure, or up to MaxFiles names, one per line
ListResults ==
    {GitFailure(Str(<<"f","a","t","a","l",":"," ","n","o","t"," ","a"," ","g","i","t"," ","r","e","p","o","s","i","t","o","r","y">>) \o LF)}
        \cup {GitSuccess(JoinLines(l)) : l \in SeqsUpTo(FileNames, MaxFiles)}

\* a diff that adds one line with U+200B at column 2 of line 1 of b
DiffAddedZeroWidth ==
    JoinLines(<< Str(<<"d","i","f","f"," ","-","-","g","i","t"," ","b"," ","b">>),
                 Str(<<"-","-","-"," ","/","d","e","v","/","n","u","l","l">>),
                 Str(<<"+","+","+"," ","b">>),
                 Str(<<"@","@"," ","-","0",",","0"," ","+","1"," ","@","@">>),
                 <<43, 120, 8203>> >>)

\* a pure rename whose new name has an apostrophe
DiffRenameApostrophe ==
    JoinLines(<< Str(<<"d","i","f","f"," ","-","-","g","i","t"," ","a"," ","a","'">>),
                 Str(<<"r","e","n","a","m","e"," ","f","r","o","m"," ","a">>),
                 Str(<<"r","e","n","a","m","e"," ","t","o"," ","a","'">>) >>)

\* git diff: a failure with or without a message, or a diff
DiffResults ==
    {GitFailure(Str(<<"f","a","t","a","l",":"," ","b","a","d"," ","r","e","v","i","s","i","o","n">>) \o LF), GitFailure(<<>>),
     GitSuccess(<<>>), GitSuccess(DiffAddedZeroWidth), GitSuccess(DiffRenameApostrophe)}

\* git rev-parse --show-toplevel
RevParseResults == {GitFailure(Str(<<"f","a","t","a","l",":"," ","n","o","t"," ","a"," ","g","i","t"," ","r","e","p","o","s","i","t","o","r","y">>) \o LF), GitSuccess(Str(<<"/","r">>) \o LF)}

\* str.strip()
strip(str) ==
    LET kept == {i \in 1..Len(str) : ~isspace(str[i])}
    IN  IF kept = {} THEN <<>>
        ELSE SubStr(str, Least(kept), CHOOSE i \in kept : \A j \in kept : j <= i)

GitDiffOptions == <<"diff", "--no-color", "--no-ext-diff", "--no-prefix", "-U0">>

(***************************************************************************)
(* ScanOrchestrator: the functions main calls.  A call returns             *)
(* [exc, msg, value]: exc is None and value the result, or exc names the   *)
(* exception raised and msg is its message.                                *)
(***************************************************************************)
Return(value) == [exc |-> None, msg |-> <<>>, value |-> value]

Raise(exc, msg) == [exc |-> exc, msg |-> msg, value |-> <<>>]

\* _repo_root(): the top level git names, or the working directory
_repo_root(proc) ==
    IF proc.returncode # 0 THEN Str(<<"/","r","/","s","u","b">>) ELSE strip(proc.stdout)

_scan_file(file_path) ==
    IF ~Tree(file_path).inside THEN Raise(ValueError, <<>>)
    ELSE IF ~Tree(file_path).readable THEN Return(<<>>)
    ELSE LET data == Tree(file_path).data
             text == IF decode(data, "strict") = UnicodeDecodeError
                     THEN decode(data, "replace")
                     ELSE decode(data, "strict")
         IN  IF _is_probably_binary(data) THEN Return(<<>>)
             ELSE Return(_scan_text(file_path, text, 1))

\* the loop shared by _collect_untracked and _collect_tracked_files
ListedFiles(lines) ==
    Concat([k \in 1..Len(lines) |->
               LET rel == strip(lines[k])
               IN  IF rel # <<>> /\ is_file(rel) THEN <<rel>> ELSE <<>>])

_collect_untracked(proc) ==
    IF proc.returncode # 0 THEN <<>>
    ELSE ListedFiles(splitlines(proc.stdout))

_collect_tracked_files(proc) ==
    IF proc.returncode # 0 THEN <<>>
    ELSE ListedFiles(splitlines(proc.stdout))

\* the findings of one added line, as _scan_git_diff rebuilds them
RelocateFindings(fs, line_no, added_line) ==
    [i \in 1..Len(fs) |->
        [fs[i] EXCEPT !.line = line_no,
                      !.rendered_line = _render_line(added_line, DEFAULT_MAX_LEN)]]

\* the loop of _scan_git_diff over the rows
DiffFindings(rows) ==
    Concat([k \in 1..Len(rows) |->
               RelocateFindings(_scan_text(rows[k][1], rows[k][3], rows[k][2]),
                                rows[k][2], rows[k][3])])

\* the loop over the rows, or the exception _parse_diff_added_lines raised
FindingsOfRows(rows) ==
    IF rows = ValueError THEN Raise(ValueError, <<>>)
    ELSE Return(DiffFindings(rows))

\* _scan_git_diff returning no findings, instead of raising, when git fails
_scan_git_diff_lenient(proc) ==
    IF proc.returncode # 0
    THEN Return(<<>>)
    ELSE FindingsOfRows(_parse_diff_added_lines(proc.stdout))

_scan_git_diff(proc) ==
    IF proc.returncode # 0
    THEN Raise("RuntimeError",
               IF strip(proc.stderr) # <<>> THEN strip(proc.stderr)
               ELSE Str(<<"g","i","t"," ","d","i","f","f"," ","f","a","i","l","e","d">>))
    ELSE FindingsOfRows(_parse_diff_added_lines(proc.stdout))

(***************************************************************************)
(* State.                                                                  *)
(*   pc         where the run is: a step of main, or a step of the call    *)
(*              under study in the specifications of the pure functions    *)
(*   args       the parsed command line: all, staged, base                 *)
(*   repo_root  the directory the git commands run in                      *)
(*   calls      the git commands run so far, with what they answered       *)
(*   files      the listed files still to scan                             *)
(*   scans      the calls of _scan_file so far: file, whether its bytes    *)
(*              were requested, whether the call raised                    *)
(*   findings   main's findings list                                       *)
(*   stdout, stderr  the lines printed so far                              *)
(*   exit_code  the process exit status, NoInt while running               *)
(*   diff_text, diff_lines, parser  the argument of                        *)
(*              _parse_diff_added_lines, its lines still to read, and its  *)
(*              local variables                                            *)
(*   text, start_line, scanned  the arguments and result of _scan_text     *)
(*   ch, verdict  the argument and result of _is_forbidden_char            *)
(***************************************************************************)
VARIABLES pc, args, repo_root, calls, files, scans, findings, stdout, stderr,
          exit_code, diff_text, diff_lines, parser, text, start_line, scanned,
          ch, verdict, bin_data, bin_result, render_arg, render_max, render_result

mainVars == <<args, repo_root, calls, files, scans, findings, stdout, stderr, exit_code>>

parseVars == <<diff_text, diff_lines, parser>>

scanVars == <<text, start_line, scanned>>

classVars == <<ch, verdict>>

binVars == <<bin_data, bin_result>>

renderVars == <<render_arg, render_max, render_result>>

vars == <<pc, mainVars, parseVars, scanVars, classVars, binVars, renderVars>>

\* the values --base REF may carry
Refs == {"", "main"}

ArgSets == [all : BOOLEAN, staged : BOOLEAN, base : {None} \cup Refs]

\* `if args.base:`
Truthy(value) == value # None /\ value # ""

MainIdle ==
    /\ args = [all |-> FALSE, staged |-> FALSE, base |-> None]
    /\ repo_root = <<>>
    /\ calls = <<>>
    /\ files = <<>>
    /\ scans = <<>>
    /\ findings = <<>>
    /\ stdout = <<>>
    /\ stderr = <<>>
    /\ exit_code = NoInt

ParseIdle ==
    /\ diff_text = <<>>
    /\ diff_lines = <<>>
    /\ parser = ParserInit

ScanIdle ==
    /\ text = <<>>
    /\ start_line = 1
    /\ scanned = <<>>

ClassIdle ==
    /\ ch = 32
    /\ verdict = FALSE

BinIdle ==
    /\ bin_data = <<>>
    /\ bin_result = FALSE

RenderIdle ==
    /\ render_arg = <<>>
    /\ render_max = DEFAULT_MAX_LEN
    /\ render_result = <<>>

(***************************************************************************)
(* main                                                                    *)
(***************************************************************************)
Init ==
    /\ pc = "parse_args"
    /\ MainIdle
    /\ ParseIdle
    /\ ScanIdle
    /\ ClassIdle
    /\ BinIdle
    /\ RenderIdle

\* one finished _run_git
Call(cmd, proc) ==
    [cmd |-> cmd, returncode |-> proc.returncode, stdout |-> proc.stdout,
     stderr |-> proc.stderr]

\* a list.extend that would put the new findings first
Extend_at_front(list, more) == more \o list

\* list.extend
Extend(list, more) == list \o more

\* the step main takes first
FirstStep(a) ==
    IF a.all THEN "list_tracked"
    ELSE IF Truthy(a.base) THEN "diff_base"
    ELSE "diff_cached"

\* an AfterDiff that would go on to the untracked files after every diff
AfterDiff_then_untracked(a, step) ==
    CASE step = "diff_base"     -> "list_untracked"
      [] step = "diff_cached"   -> IF a.staged THEN "list_untracked" ELSE "diff_worktree"
      [] step = "diff_worktree" -> "list_untracked"

\* the step main takes after the diff of step
AfterDiff(a, step) ==
    CASE step = "diff_base"     -> "report"
      [] step = "diff_cached"   -> IF a.staged THEN "list_untracked" ELSE "diff_worktree"
      [] step = "diff_worktree" -> "list_untracked"

\* the diff_args main passes to _scan_git_diff at step
DiffArgs(a, step) ==
    CASE step = "diff_base"     -> <<a.base \o "...HEAD">>
      [] step = "diff_cached"   -> <<"--cached">>
      [] step = "diff_worktree" -> <<>>

\* the line print(f"ERROR: {exc}", file=sys.stderr) writes
ErrorLine(msg) == [fmt |-> "ERROR: {exc}", exc |-> msg]

\* what the interpreter writes for an exception main does not catch
Traceback(exc) == [fmt |-> "Traceback (most recent call last)", exc |-> exc]

OkLine == [fmt |-> "OK: no invisible/suspicious characters found."]

FailHeader == [fmt |-> "FAIL: invisible/suspicious characters found:"]

UpperHexDigits == Str(<<"0","1","2","3","4","5","6","7","8","9","A","B","C","D","E","F">>)

RECURSIVE UpperHex(_)
UpperHex(n) ==
    IF n < 16 THEN <<UpperHexDigits[n + 1]>>
    ELSE UpperHex(n \div 16) \o <<UpperHexDigits[(n % 16) + 1]>>

RECURSIVE ZeroPad(_, _)
ZeroPad(digits, width) ==
    IF Len(digits) >= width THEN digits ELSE ZeroPad(<<48>> \o digits, width)

\* the line printed for one finding
FindingLine(f) ==
    [fmt |-> "- {path}:{line}:{col} U+{codepoint:04X} {name} ({category}) :: {rendered_line}",
     path |-> f.path, line |-> f.line, col |-> f.col,
     codepoint |-> ZeroPad(UpperHex(f.codepoint), 4), name |-> f.name,
     category |-> f.category, rendered_line |-> f.rendered_line]

\* args = parser.parse_args()
ParseArgs ==
    /\ pc = "parse_args"
    /\ \E a \in ArgSets : args' = a
    /\ pc' = "repo_root"
    /\ UNCHANGED <<repo_root, calls, files, scans, findings, stdout, stderr, exit_code>>
    /\ UNCHANGED <<parseVars, scanVars, classVars, binVars, renderVars>>

\* repo_root = _repo_root(); findings = []; the mode is selected
RepoRoot ==
    /\ pc = "repo_root"
    /\ \E proc \in RevParseResults :
          /\ calls' = Append(calls, Call(<<"rev-parse", "--show-toplevel">>, proc))
          /\ repo_root' = _repo_root(proc)
    /\ findings' = <<>>
    /\ pc' = FirstStep(args)
    /\ UNCHANGED <<args, files, scans, stdout, stderr, exit_code>>
    /\ UNCHANGED <<parseVars, scanVars, classVars, binVars, renderVars>>

\* the run ends with an exception main catches (RuntimeError) or not
Abort(r) ==
    /\ pc' = "exit"
    /\ IF r.exc = "RuntimeError"
       THEN /\ stderr' = Append(stderr, ErrorLine(r.msg))
            /\ exit_code' = Box(2)
       ELSE /\ stderr' = Append(stderr, Traceback(r.exc))
            /\ exit_code' = Box(1)

\* findings.extend(_scan_git_diff(repo_root, diff_args))
ScanGitDiff ==
    /\ pc \in {"diff_base", "diff_cached", "diff_worktree"}
    /\ \E proc \in DiffResults :
          \E r \in {_scan_git_diff(proc)} :
              /\ calls' = Append(calls, Call(GitDiffOptions \o DiffArgs(args, pc), proc))
              /\ IF r.exc # None
                 THEN /\ Abort(r)
                      /\ UNCHANGED findings
                 ELSE /\ findings' = Extend(findings, r.value)
                      /\ pc' = AfterDiff(args, pc)
                      /\ UNCHANGED <<stderr, exit_code>>
    /\ UNCHANGED <<args, repo_root, files, scans, stdout>>
    /\ UNCHANGED <<parseVars, scanVars, classVars, binVars, renderVars>>

\* for p in _collect_tracked_files(repo_root): the list is built
CollectTracked ==
    /\ pc = "list_tracked"
    /\ \E proc \in ListResults :
          /\ calls' = Append(calls, Call(<<"ls-files">>, proc))
          /\ files' = _collect_tracked_files(proc)
          /\ pc' = IF _collect_tracked_files(proc) = <<>> THEN "report" ELSE "scan_files"
    /\ UNCHANGED <<args, repo_root, scans, findings, stdout, stderr, exit_code>>
    /\ UNCHANGED <<parseVars, scanVars, classVars, binVars, renderVars>>

\* for p in _collect_untracked(repo_root): the list is built
CollectUntracked ==
    /\ pc = "list_untracked"
    /\ \E proc \in ListResults :
          /\ calls' = Append(calls,
                             Call(<<"ls-files", "--others", "--exclude-standard">>, proc))
          /\ files' = _collect_untracked(proc)
          /\ pc' = IF _collect_untracked(proc) = <<>> THEN "report" ELSE "scan_files"
    /\ UNCHANGED <<args, repo_root, scans, findings, stdout, stderr, exit_code>>
    /\ UNCHANGED <<parseVars, scanVars, classVars, binVars, renderVars>>

\* findings.extend(_scan_file(repo_root, p)) for the next listed file
ScanFile ==
    /\ pc = "scan_files"
    /\ files # <<>>
    /\ LET p == Head(files)
           r == _scan_file(p)
       IN  /\ scans' = Append(scans, [file |-> p,
                                      read |-> Tree(p).inside,
                                      raised |-> r.exc # None])
           /\ IF r.exc # None
              THEN /\ Abort(r)
                   /\ UNCHANGED <<findings, files>>
              ELSE /\ findings' = Extend(findings, r.value)
                   /\ files' = Tail(files)
                   /\ pc' = IF Tail(files) = <<>> THEN "report" ELSE "scan_files"
                   /\ UNCHANGED <<stderr, exit_code>>
    /\ UNCHANGED <<args, repo_root, calls, stdout>>
    /\ UNCHANGED <<parseVars, scanVars, classVars, binVars, renderVars>>

FindingLines(fs) == [i \in 1..Len(fs) |-> FindingLine(fs[i])]

\* the report and the return value of main
Report ==
    /\ pc = "report"
    /\ IF findings = <<>>
       THEN /\ stdout' = Append(stdout, OkLine)
            /\ exit_code' = Box(0)
       ELSE /\ stdout' = stdout \o <<FailHeader>> \o FindingLines(findings)
            /\ exit_code' = Box(1)
    /\ pc' = "exit"
    /\ UNCHANGED <<args, repo_root, calls, files, scans, findings, stderr>>
    /\ UNCHANGED <<parseVars, scanVars, classVars, binVars, renderVars>>

Next ==
    \/ ParseArgs
    \/ RepoRoot
    \/ ScanGitDiff
    \/ CollectTracked
    \/ CollectUntracked
    \/ ScanFile
    \/ Report

Spec == Init /\ [][Next]_vars

(***************************************************************************)
(* _parse_diff_added_lines, one line of the diff at a time.                *)
(***************************************************************************)
\* the most lines a sampled diff text is put together from
MaxDiffLines == 2

\* the most body lines a sampled single-hunk diff has
MaxBody == 4

DiffLineSamples ==
    {Str(<<"d","i","f","f"," ","-","-","g","i","t"," ","a"," ","b">>),
     Str(<<"d","i","f","f"," ","-","-","g","i","t"," ","a"," ","a","'">>),
     Str(<<"@","@"," ","-","1"," ","+","1"," ","@","@">>),
     Str(<<"@","@"," ","-","0",",","0"," ","+","7",",","2"," ","@","@">>),
     Str(<<"@","@"," ","-","\\","d"," ","\\","\\","d"," ","@","@">>),
     Str(<<"+","x">>), Str(<<"-","y">>), Str(<<" ","z">>),
     Str(<<"+","+","+"," ","b">>), Str(<<"-","-","-"," ","a">>),
     Str(<<"\\"," ","N","o"," ","n","e","w","l","i","n","e"," ","a","t"," ","e","n","d"," ","o","f"," ","f","i","l","e">>),
     <<43, 120, 8203>>}

FileHeaderSample == Str(<<"d","i","f","f"," ","-","-","g","i","t"," ","a",".","t","x","t"," ","b",".","t","x","t">>)

HunkHeaderSamples ==
    {Str(<<"@","@"," ","-","1",",","2"," ","+","1",",","3"," ","@","@">>),
     Str(<<"@","@"," ","-","3"," ","+","7"," ","@","@">>)}

BodyLineSamples ==
    {Str(<<"-","o","l","d">>), Str(<<"+","n","e","w","1">>), Str(<<"+","n","e","w","2">>), Str(<<" ","c","o","n","t","e","x","t">>)}

\* the diff of the example: one file header, one hunk header, four body lines
SpecExample ==
    JoinLines(<<FileHeaderSample, Str(<<"@","@"," ","-","1",",","2"," ","+","1",",","3"," ","@","@">>),
                Str(<<"-","o","l","d">>), Str(<<"+","n","e","w","1">>), Str(<<"+","n","e","w","2">>), Str(<<" ","c","o","n","t","e","x","t">>)>>)

DiffTexts ==
    {JoinLines(l) : l \in SeqsUpTo(DiffLineSamples, MaxDiffLines)}
        \cup {JoinLines(<<FileHeaderSample, h>> \o body) :
                 h \in HunkHeaderSamples, body \in SeqsUpTo(BodyLineSamples, MaxBody)}

ParseInit ==
    /\ pc = "parse_loop"
    /\ diff_text \in DiffTexts
    /\ diff_lines = splitlines(diff_text)
    /\ parser = ParserInit
    /\ MainIdle
    /\ ScanIdle
    /\ ClassIdle
    /\ BinIdle
    /\ RenderIdle

\* one iteration of `for raw in diff_text.splitlines()`
ParseStep ==
    /\ pc = "parse_loop"
    /\ diff_lines # <<>>
    /\ parser' = ParseLine(parser, Head(diff_lines))
    /\ IF ParseLine(parser, Head(diff_lines)).raised # None
       THEN pc' = "parse_raised" /\ UNCHANGED diff_lines
       ELSE pc' = "parse_loop" /\ diff_lines' = Tail(diff_lines)
    /\ UNCHANGED diff_text
    /\ UNCHANGED <<mainVars, scanVars, classVars, binVars, renderVars>>

\* return rows
ParseReturn ==
    /\ pc = "parse_loop"
    /\ diff_lines = <<>>
    /\ pc' = "parse_returned"
    /\ UNCHANGED <<mainVars, parseVars, scanVars, classVars, binVars, renderVars>>

ParseNext == ParseStep \/ ParseReturn

SpecParse == ParseInit /\ [][ParseNext]_vars

(***************************************************************************)
(* _scan_text as one call.                                                 *)
(***************************************************************************)
\* the longest text scanned
MaxTextLen == 3

ScanChars == {97, 10, 13, 11, 28, 133, 160, 8203, 8232}

StartLines == {1, 7}

ScanPath == Str(<<"p">>)

ScanInit ==
    /\ pc = "scan_call"
    /\ text \in SeqsUpTo(ScanChars, MaxTextLen)
    /\ start_line \in StartLines
    /\ scanned = <<>>
    /\ MainIdle
    /\ ParseIdle
    /\ ClassIdle
    /\ BinIdle
    /\ RenderIdle

ScanText ==
    /\ pc = "scan_call"
    /\ scanned' = _scan_text(ScanPath, text, start_line)
    /\ pc' = "scan_returned"
    /\ UNCHANGED <<text, start_line>>
    /\ UNCHANGED <<mainVars, parseVars, classVars, binVars, renderVars>>

ScanNext == ScanText

SpecScan == ScanInit /\ [][ScanNext]_vars

(***************************************************************************)
(* _is_forbidden_char as one call.                                         *)
(***************************************************************************)
ClassInit ==
    /\ pc = "classify_call"
    /\ ch \in Chars
    /\ verdict = FALSE
    /\ MainIdle
    /\ ParseIdle
    /\ ScanIdle
    /\ BinIdle
    /\ RenderIdle

Classify ==
    /\ pc = "classify_call"
    /\ verdict' = _is_forbidden_char(ch)
    /\ pc' = "classify_returned"
    /\ UNCHANGED ch
    /\ UNCHANGED <<mainVars, parseVars, scanVars, binVars, renderVars>>

ClassNext == Classify

SpecClassify == ClassInit /\ [][ClassNext]_vars

(***************************************************************************)
(* _is_probably_binary as one call.                                        *)
(***************************************************************************)
\* the longest data of which every byte string is tried
MaxDataLen == 2

ByteSamples == {0, 8, 9, 13, 14, 31, 32, 97, 127, 255}

\* n bytes b
Run(b, n) == [i \in 1..n |-> b]

\* c non-text bytes, then t text bytes: fractions just at and just over the
\* threshold, in data shorter and longer than the sample
NonTextThenText ==
    {Run(1, c[1]) \o Run(97, c[2]) :
        c \in {<<3, 7>>, <<4, 6>>, <<1228, 2868>>, <<1229, 2867>>,
               <<1228, 3868>>, <<1229, 5000>>}}

\* a full sample of text bytes, then non-text bytes the sample leaves out
TextThenNonText == Run(97, SAMPLE_SIZE) \o Run(1, 2000)

DataSamples ==
    SeqsUpTo(ByteSamples, MaxDataLen)
        \cup NonTextThenText
        \cup {d \o <<0>> : d \in NonTextThenText}
        \cup {TextThenNonText, Run(97, SAMPLE_SIZE) \o <<0>>, Run(97, SAMPLE_SIZE + 900) \o <<0, 97>>}

BinInit ==
    /\ pc = "binary_call"
    /\ bin_data \in DataSamples
    /\ bin_result = FALSE
    /\ MainIdle
    /\ ParseIdle
    /\ ScanIdle
    /\ ClassIdle
    /\ RenderIdle

IsProbablyBinary ==
    /\ pc = "binary_call"
    /\ bin_result' = _is_probably_binary(bin_data)
    /\ pc' = "binary_returned"
    /\ UNCHANGED bin_data
    /\ UNCHANGED <<mainVars, parseVars, scanVars, classVars, renderVars>>

BinNext == IsProbablyBinary

SpecBinary == BinInit /\ [][BinNext]_vars

(***************************************************************************)
(* _render_line as one call.                                               *)
(***************************************************************************)
\* the longest line of which every string is tried
MaxRenderLen == 2

\* a letter, a backslash, a tab, U+00E9, a zero-width space, U+1F600: the
\* escaped forms are 1, 2, 2, 4, 6 and 10 characters long
RenderChars == {97, 92, 9, 233, 8203, 128512}

RenderLines ==
    SeqsUpTo(RenderChars, MaxRenderLen)
        \cup {Run(97, DEFAULT_MAX_LEN), Run(97, DEFAULT_MAX_LEN + 1), Run(8203, 41)}

MaxLens == {0, 1, 2, 3, 4, 5, 8, DEFAULT_MAX_LEN}

RenderInit ==
    /\ pc = "render_call"
    /\ render_arg \in RenderLines
    /\ render_max \in MaxLens
    /\ render_result = <<>>
    /\ MainIdle
    /\ ParseIdle
    /\ ScanIdle
    /\ ClassIdle
    /\ BinIdle

RenderLine ==
    /\ pc = "render_call"
    /\ render_result' = _render_line(render_arg, render_max)
    /\ pc' = "render_returned"
    /\ UNCHANGED <<render_arg, render_max>>
    /\ UNCHANGED <<mainVars, parseVars, scanVars, classVars, binVars>>

RenderNext == RenderLine

SpecRender == RenderInit /\ [][RenderNext]_vars

(***************************************************************************)
(* The properties.                                                         *)
(***************************************************************************)
\* the modes, as main selects them
InAll == args.all

InBaseRef == ~args.all /\ Truthy(args.base)

InStaged == ~args.all /\ ~Truthy(args.base) /\ args.staged

InDefault == ~args.all /\ ~Truthy(args.base) /\ ~args.staged

IsDiffCall(c) == c.cmd[1] = "diff"

IsListCall(c) == c.cmd[1] = "ls-files"

\* how many decimal digits start at position i of s
DigitRun(s, i) ==
    Least({j \in i..(Len(s) + 1) : j > Len(s) \/ s[j] \notin 48..57} \cup {Len(s) + 1}) - i

\* the position after an optional `,digits` at position i
AfterOptionalDigits(s, i) ==
    IF i <= Len(s) /\ s[i] = 44 /\ DigitRun(s, i + 1) >= 1
    THEN i + 1 + DigitRun(s, i + 1)
    ELSE i

\* new_start of a hunk header `@@ -a[,b] +s[,c] @@`, boxed; NoInt for any
\* other line
HunkHeaderStart(raw) ==
    LET i1 == 5 + DigitRun(raw, 5)
        i2 == AfterOptionalDigits(raw, i1)
        i3 == i2 + 2
        i4 == i3 + DigitRun(raw, i3)
        i5 == AfterOptionalDigits(raw, i4)
    IN  IF /\ StartsWith(raw, Str(<<"@","@"," ","-">>))
           /\ DigitRun(raw, 5) >= 1
           /\ SubStr(raw, i2, i2 + 1) = Str(<<" ","+">>)
           /\ DigitRun(raw, i3) >= 1
           /\ SubStr(raw, i5, i5 + 2) = Str(<<" ","@","@">>)
        THEN Box(DecimalValue(SubStr(raw, i3, i4 - 1)))
        ELSE NoInt

IsFileMarker(raw) ==
    \/ StartsWith(raw, Str(<<"+","+","+"," ">>))
    \/ StartsWith(raw, Str(<<"-","-","-"," ">>))
    \/ StartsWith(raw, Str(<<"\\"," ","N","o"," ","n","e","w","l","i","n","e">>))

RECURSIVE AddedRows(_, _, _, _)
\* the rows of the added lines of a unified diff, from its k-th line on:
\* path is the new path of the last file header, n the number the next line
\* of the new file has (NoInt before the first hunk of the file)
AddedRows(lines, k, path, n) ==
    IF k > Len(lines) THEN <<>>
    ELSE LET raw == lines[k]
         IN  IF DiffHeaderMatch(raw).matched
             THEN AddedRows(lines, k + 1, DiffHeaderMatch(raw).new, NoInt)
             ELSE IF HunkHeaderStart(raw) # NoInt
             THEN AddedRows(lines, k + 1, path, HunkHeaderStart(raw))
             ELSE IF path = None \/ n = NoInt \/ IsFileMarker(raw) \/ raw = <<>>
             THEN AddedRows(lines, k + 1, path, n)
             ELSE IF raw[1] = 43
             THEN <<<<path, n[1], SubStr(raw, 2, Len(raw))>>>>
                      \o AddedRows(lines, k + 1, path, Box(n[1] + 1))
             ELSE IF raw[1] = 32
             THEN AddedRows(lines, k + 1, path, Box(n[1] + 1))
             ELSE AddedRows(lines, k + 1, path, n)

HasFinding(path, line, col, codepoint) ==
    \E i \in 1..Len(findings) :
        /\ findings[i].path = path
        /\ findings[i].line = line
        /\ findings[i].col = col
        /\ findings[i].codepoint = codepoint

\* the forbidden characters of the added lines of a diff all have a finding
AddedLinesReported(diff) ==
    LET rows == AddedRows(splitlines(diff), 1, None, NoInt)
    IN  \A r \in 1..Len(rows) : \A j \in 1..Len(rows[r][3]) :
            _is_forbidden_char(rows[r][3][j])
                => HasFinding(rows[r][1], rows[r][2], j, rows[r][3][j])

AddedLinesForbidden(diff) ==
    LET rows == AddedRows(splitlines(diff), 1, None, NoInt)
    IN  \E r \in 1..Len(rows) : \E j \in 1..Len(rows[r][3]) :
            _is_forbidden_char(rows[r][3][j])

\* the text of a listed file that is readable and not binary
IsScannable(p) ==
    /\ Tree(p).inside
    /\ Tree(p).readable
    /\ ~_is_probably_binary(Tree(p).data)

FileText(p) == decode(Tree(p).data, "replace")

\* the files a successful listing names, as main iterates them
ListedBy(c) == ListedFiles(splitlines(c.stdout))

\* C1: in Staged mode every forbidden character on a line added in the
\* cached diff has a Finding with the file's path, the line's number in the
\* new file and the 1-based column, every forbidden character of a readable
\* non-binary untracked file has a Finding, and the run ends with exit code 1
\* whenever there is such a character.
C1_StagedReportsAddedLines ==
    (pc = "exit" /\ InStaged /\ Len(calls) >= 2 /\ calls[2].returncode = 0)
        => /\ AddedLinesReported(calls[2].stdout)
           /\ AddedLinesForbidden(calls[2].stdout) => exit_code = Box(1)
           /\ (/\ Len(calls) >= 3 /\ calls[3].returncode = 0
               /\ \A k \in 1..Len(ListedBy(calls[3])) : Tree(ListedBy(calls[3])[k]).inside)
                 => \A p \in FileNames :
                       (/\ \E k \in 1..Len(splitlines(calls[3].stdout)) :
                              splitlines(calls[3].stdout)[k] = p
                        /\ is_file(p) /\ IsScannable(p))
                           => /\ \A j \in 1..Len(FileText(p)) :
                                     _is_forbidden_char(FileText(p)[j])
                                         => \E i \in 1..Len(findings) :
                                               /\ findings[i].path = p
                                               /\ findings[i].codepoint = FileText(p)[j]
                              /\ (\E j \in 1..Len(FileText(p)) :
                                     _is_forbidden_char(FileText(p)[j]))
                                     => exit_code = Box(1)

PlainPathChars == (48..57) \cup (65..90) \cup (97..122) \cup {46}

\* a file header whose two paths are plain names
IsPlainFileHeader(raw) ==
    /\ DiffHeaderMatch(raw).matched
    /\ \A i \in 12..Len(raw) : raw[i] \in PlainPathChars \cup {32}

IsBodyLine(raw) ==
    /\ raw # <<>>
    /\ raw[1] \in {43, 45, 32}
    /\ ~IsFileMarker(raw)

\* a file header, a hunk header, then body lines
IsSingleHunkDiff(lines) ==
    /\ Len(lines) >= 2
    /\ IsPlainFileHeader(lines[1])
    /\ HunkHeaderStart(lines[2]) # NoInt
    /\ \A k \in 3..Len(lines) : IsBodyLine(lines[k])

\* C2: for a diff text made of a file header, a hunk header and body lines,
\* parse_added_lines returns one row (new path, n, text after the '+') per
\* line beginning with '+', n starting at new_start and growing by one after
\* every added and every context line; on the example it returns
\* [("b.txt", 1, "new1"), ("b.txt", 2, "new2")].
C2_ParseAddedLines ==
    pc \in {"parse_returned", "parse_raised"}
        => /\ IsSingleHunkDiff(splitlines(diff_text))
                 => /\ pc = "parse_returned"
                    /\ parser.rows = AddedRows(splitlines(diff_text), 1, None, NoInt)
           /\ diff_text = SpecExample
                 => /\ pc = "parse_returned"
                    /\ parser.rows = << <<Str(<<"b",".","t","x","t">>), 1, Str(<<"n","e","w","1">>)>>,
                                        <<Str(<<"b",".","t","x","t">>), 2, Str(<<"n","e","w","2">>)>> >>

\* C3: scan emits exactly one Finding for every character of the text for
\* which is_forbidden is true, the text being split into lines only at line
\* feed, carriage return and carriage-return-line-feed.
C3_OneFindingPerForbiddenChar ==
    pc = "scan_returned"
        => Len(scanned) = Cardinality({i \in 1..Len(text) : _is_forbidden_char(text[i])})

\* C4: is_forbidden is false for space, tab, line feed and carriage return
\* (although tab, line feed and carriage return are of category Cc and are
\* whitespace); for every other character it is true exactly when the
\* character is whitespace, or lies in U+FE00..U+FE0F or U+E0100..U+E01EF, or
\* is of category Cc or Cf, or is U+034F.
C4_ForbiddenExactly ==
    pc = "classify_returned"
        => /\ ch \in {32, 9, 10, 13} => ~verdict
           /\ ch \in {9, 10, 13} => category(ch) = "Cc" /\ isspace(ch)
           /\ ch \notin {32, 9, 10, 13}
                 => (verdict <=> \/ isspace(ch)
                                 \/ ch \in 65024..65039
                                 \/ ch \in 917760..917999
                                 \/ category(ch) \in {"Cc", "Cf"}
                                 \/ ch = 847)

\* a tab has been classified: a control character and whitespace, allowed
C4_Witness ==
    /\ pc = "classify_returned"
    /\ ch = 9
    /\ category(ch) = "Cc"
    /\ ~verdict

\* C5: a run ends with exit code 2 exactly when a listing or diff command
\* failed, otherwise with 0 exactly when the findings list is empty and with
\* 1 exactly when it is not; the OK line is printed only with exit 0 and
\* the FAIL header only with exit 1.
C5_ExitCodes ==
    pc = "exit"
        => LET failed == \E i \in 1..Len(calls) :
                             /\ IsDiffCall(calls[i]) \/ IsListCall(calls[i])
                             /\ calls[i].returncode # 0
           IN  /\ exit_code \in {Box(0), Box(1), Box(2)}
               /\ exit_code = Box(2) <=> failed
               /\ ~failed => /\ exit_code = Box(0) <=> findings = <<>>
                             /\ exit_code = Box(1) <=> findings # <<>>
               /\ (\E i \in 1..Len(stdout) : stdout[i] = OkLine) => exit_code = Box(0)
               /\ (\E i \in 1..Len(stdout) : stdout[i] = FailHeader) => exit_code = Box(1)

\* C6: a diff retrieval that fails ends the run at once: no later command
\* is run, no file is listed or scanned, nothing is written to stdout and
\* the exit code is 2.
C6_DiffFailureAborts ==
    \A i \in 1..Len(calls) :
        (IsDiffCall(calls[i]) /\ calls[i].returncode # 0)
            => /\ i = Len(calls)
               /\ pc = "exit"
               /\ exit_code = Box(2)
               /\ stdout = <<>>
               /\ files = <<>>
               /\ scans = <<>>

\* in Default mode the cached diff was read and the working-tree diff failed
C6_Witness ==
    /\ InDefault
    /\ Len(calls) = 3
    /\ calls[2].returncode = 0
    /\ IsDiffCall(calls[3])
    /\ calls[3].returncode # 0
    /\ exit_code = Box(2)

\* C7: a failed tracked-file or untracked-file listing is fatal: the run
\* ends with exit code 2 and an ERROR line carrying the command's error
\* text, and prints neither the OK line nor a findings report.
C7_ListingFailureFatal ==
    \A i \in 1..Len(calls) :
        (pc = "exit" /\ IsListCall(calls[i]) /\ calls[i].returncode # 0)
            => /\ exit_code = Box(2)
               /\ \E k \in 1..Len(stderr) : stderr[k] = ErrorLine(strip(calls[i].stderr))
               /\ stdout = <<>>

\* C8: no listed file aborts the scan: when a listing succeeded, every file
\* it names is scanned, none of the scans raises, and the run ends with exit
\* code 0 or 1.
C8_NoFileAborts ==
    \A i \in 1..Len(calls) :
        (pc = "exit" /\ IsListCall(calls[i]) /\ calls[i].returncode = 0)
            => /\ [k \in 1..Len(scans) |-> scans[k].file] = ListedBy(calls[i])
               /\ \A k \in 1..Len(scans) : ~scans[k].raised
               /\ exit_code \in {Box(0), Box(1)}

\* the commands of Default mode, in order
DefaultCommands ==
    << <<"rev-parse", "--show-toplevel">>,
       GitDiffOptions \o <<"--cached">>,
       GitDiffOptions,
       <<"ls-files", "--others", "--exclude-standard">> >>

\* what a call that returned r added to the findings
ValueOrNothing(r) == IF r.exc = None THEN r.value ELSE <<>>

\* the findings of each step run so far: the diffs, then the scanned files
StepFindings ==
    [i \in 1..Len(calls) |->
        IF IsDiffCall(calls[i]) THEN ValueOrNothing(_scan_git_diff(calls[i])) ELSE <<>>]
    \o [k \in 1..Len(scans) |->
        IF scans[k].raised THEN <<>> ELSE _scan_file(scans[k].file).value]

\* C9: in Default mode the steps run in the order cached diff, working-tree
\* diff, untracked files in listing order, and the findings list the run
\* ends with is the concatenation of the findings of the steps in that
\* order, nothing removed.
C9_DefaultOrder ==
    InDefault
        => /\ Len(calls) <= 4
           /\ \A i \in 1..Len(calls) : calls[i].cmd = DefaultCommands[i]
           /\ scans # <<>> => Len(calls) = 4
           /\ \A k \in 1..Len(scans) : scans[k].file = ListedBy(calls[4])[k]
           /\ pc = "exit" => findings = Concat(StepFindings)

\* a Default run has listed the same untracked file twice and reports its
\* finding twice
C9_Witness ==
    /\ InDefault
    /\ pc = "exit"
    /\ Len(scans) = 2
    /\ scans[1].file = scans[2].file
    /\ Len(findings) = 2
    /\ findings[1] = findings[2]
    /\ Len(stdout) = 3

\* C10: in BaseRef mode the only command after root discovery is the diff
\* <ref>...HEAD: no listing is requested, no file is read, and no finding
\* comes from a file's content.
C10_BaseRefOnlyDiff ==
    InBaseRef
        => /\ Len(calls) <= 2
           /\ \A i \in 1..Len(calls) :
                 \/ i = 1 /\ calls[i].cmd = <<"rev-parse", "--show-toplevel">>
                 \/ i = 2 /\ calls[i].cmd = GitDiffOptions \o <<args.base \o "...HEAD">>
           /\ files = <<>>
           /\ scans = <<>>

\* a BaseRef run has ended after its diff
C10_Witness ==
    /\ InBaseRef
    /\ pc = "exit"
    /\ Len(calls) = 2
    /\ calls[2].cmd = GitDiffOptions \o <<"main...HEAD">>
    /\ calls[2].returncode = 0
    /\ exit_code = Box(0)

\* the modes an invocation with the parsed flags can be in
Modes == {"All", "Staged", "Default"} \cup (IF args.base # None THEN {"BaseRef"} ELSE {})

\* the git commands of each mode's steps, in order
ModeCommands(m) ==
    CASE m = "All"     -> << <<"ls-files">> >>
      [] m = "BaseRef" -> << GitDiffOptions \o <<args.base \o "...HEAD">> >>
      [] m = "Staged"  -> << GitDiffOptions \o <<"--cached">>,
                             <<"ls-files", "--others", "--exclude-standard">> >>
      [] m = "Default" -> << GitDiffOptions \o <<"--cached">>,
                             GitDiffOptions,
                             <<"ls-files", "--others", "--exclude-standard">> >>

\* the mode the flag table gives when at most one flag is on the command line
ModeOfSingleFlag ==
    CASE args.all /\ ~args.staged /\ args.base = None  -> "All"
      [] ~args.all /\ args.staged /\ args.base = None  -> "Staged"
      [] ~args.all /\ ~args.staged /\ args.base # None -> "BaseRef"
      [] ~args.all /\ ~args.staged /\ args.base = None -> "Default"
      [] OTHER                                         -> "several flags"

\* the commands run so far after root discovery
StepCommands == [i \in 1..(Len(calls) - 1) |-> calls[i + 1].cmd]

IsPrefix(s, t) == Len(s) <= Len(t) /\ s = SubSeq(t, 1, Len(s))

\* C11: for every combination of --all, --staged and --base REF the steps
\* that run are those of exactly one mode; with one flag alone --all runs
\* All, --staged runs Staged, --base REF runs BaseRef(REF) whatever REF is,
\* and with no flag Default runs.
C11_ModeSelection ==
    pc # "parse_args"
        => /\ \E m \in Modes : IsPrefix(StepCommands, ModeCommands(m))
           /\ ModeOfSingleFlag \in Modes
                 => IsPrefix(StepCommands, ModeCommands(ModeOfSingleFlag))
           /\ (pc = "exit" /\ stderr = <<>>)
                 => Cardinality({m \in Modes : StepCommands = ModeCommands(m)}) = 1

\* the bytes of the first 4096 that are < 9, or between 13 and 32, or 127
ControlBytesSampled(d) ==
    {k \in 1..(IF Len(d) < 4096 THEN Len(d) ELSE 4096) :
        d[k] < 9 \/ (13 < d[k] /\ d[k] < 32) \/ d[k] = 127}

\* C12: looks_binary(data) is true whenever data holds a 0x00 byte at any
\* offset, also past the first 4096 bytes; otherwise it is false for empty
\* data, and for other data true exactly when the count n of control bytes
\* among the first min(len(data), 4096) bytes satisfies
\* 10*n > 3*(sample length), so a fraction of exactly 0.3 gives false.
C12_LooksBinary ==
    pc = "binary_returned"
        => IF \E k \in 1..Len(bin_data) : bin_data[k] = 0
           THEN bin_result
           ELSE IF Len(bin_data) = 0
           THEN ~bin_result
           ELSE bin_result <=>
                   10 * Cardinality(ControlBytesSampled(bin_data))
                       > 3 * (IF Len(bin_data) < 4096 THEN Len(bin_data) ELSE 4096)

\* data whose only 0x00 byte lies past the first 4096 bytes was found binary
C12_Witness ==
    /\ pc = "binary_returned"
    /\ Len(bin_data) > 4096
    /\ bin_data[Len(bin_data)] = 0
    /\ \A k \in 1..4096 : bin_data[k] # 0
    /\ bin_result

\* the values new_line can hold by its type int | None
NewLines == {NoInt, Box(0), Box(1), Box(7)}

\* the parser state st with new_line holding n
WithNewLine(st, n) == [st EXCEPT !.new_line = n]

\* next is the parser state one iteration over raw makes of st: a row is
\* emitted only with both variables set and carries them, and a file header
\* unsets new_line
RowRule(st, raw, next) ==
    /\ next.rows # st.rows
          => /\ st.current_path # None
             /\ st.new_line # NoInt
             /\ raw[1] = 43
             /\ next.rows = Append(st.rows, <<st.current_path, st.new_line[1], Tail(raw)>>)
    /\ (DiffHeaderMatch(raw).matched /\ next.raised = None)
          => /\ next.new_line = NoInt
             /\ next.current_path # None
             /\ next.rows = st.rows

EmitsOnlyWhenSet(st, raw) == RowRule(st, raw, ParseLine(st, raw))

\* after a file header, lines that are no hunk header emit nothing, whatever
\* new_line was before the header
NothingBeforeHunk(st, header, raw) ==
    ParseLine(st, header).raised = None
        => ParseLine(ParseLine(st, header), raw).rows = st.rows

\* C13: parse_added_lines emits a row only while current_path and
\* next_new_line are both set; every file header unsets next_new_line, so no
\* '+' line between a file header and the next hunk header, or before the
\* first file header, is emitted, and an emitted row carries the path of the
\* last file header and a number from a hunk header after that header.
C13_RowsOnlyWhenEstablished ==
    /\ (pc = "parse_loop" /\ diff_lines # <<>>)
          => \A n \in NewLines : EmitsOnlyWhenSet(WithNewLine(parser, n), Head(diff_lines))
    /\ (/\ pc = "parse_loop" /\ Len(diff_lines) >= 2
        /\ DiffHeaderMatch(diff_lines[1]).matched
        /\ ~HunkMatch(diff_lines[2]).matched)
          => \A n \in NewLines :
                NothingBeforeHunk(WithNewLine(parser, n), diff_lines[1], diff_lines[2])
    /\ \A r \in 1..Len(parser.rows) : parser.rows[r][1] = parser.current_path

\* a '+' line right after a file header, before any hunk header, was skipped
C13_Witness ==
    /\ pc = "parse_returned"
    /\ splitlines(diff_text) = <<Str(<<"d","i","f","f"," ","-","-","g","i","t"," ","a"," ","b">>),
                                 Str(<<"+","x">>)>>
    /\ parser.current_path = Str(<<"b">>)
    /\ parser.new_line = NoInt
    /\ parser.rows = <<>>

\* next is the parser state one iteration over raw makes of st: the
\* iteration raises nothing, a file header sets current_path and a hunk header
\* sets new_line to an integer
HeadersAccepted(st, raw, next) ==
    /\ next.raised = None
    /\ DiffHeaderMatch(raw).matched => next.current_path # None
    /\ (~DiffHeaderMatch(raw).matched /\ HunkMatch(raw).matched) => next.new_line # NoInt

\* C14: parse_added_lines returns a row list for every diff text and never
\* ends with an error: every file header sets current_path, to the fourth
\* shell-split token or to the header's new capture, also when the paths hold
\* an unbalanced quote or spaces, and every line matching the hunk-header
\* pattern sets next_new_line to an integer.
C14_ParseNeverRaises ==
    /\ pc # "parse_raised"
    /\ (pc = "parse_loop" /\ diff_lines # <<>>)
          => HeadersAccepted(parser, Head(diff_lines), ParseLine(parser, Head(diff_lines)))

\* a file-level marker, the no-newline marker, or a removed line
IsIgnoredLine(raw) ==
    \/ StartsWith(raw, Str(<<"+","+","+"," ">>))
    \/ StartsWith(raw, Str(<<"-","-","-"," ">>))
    \/ StartsWith(raw, Str(<<"\\"," ","N","o"," ","n","e","w","l","i","n","e"," ","a","t"," ",
                             "e","n","d"," ","o","f"," ","f","i","l","e">>))
    \/ StartsWith(raw, Str(<<"-">>))

\* the lists of rows tried in place of the rows emitted so far
RowLists == {<<>>, << <<<<97>>, 3, <<119>>>> >>}

\* C15: a line beginning with `+++ ` or `--- `, the marker
\* `\ No newline at end of file`, and a removed line beginning with '-' each
\* leave current_path, next_new_line and the emitted rows unchanged, in
\* every parser state.
C15_IgnoredLinesChangeNothing ==
    (pc = "parse_loop" /\ diff_lines # <<>> /\ IsIgnoredLine(Head(diff_lines)))
        => \A n \in NewLines : \A rs \in RowLists :
              ParseLine([parser EXCEPT !.new_line = n, !.rows = rs], Head(diff_lines))
                  = [parser EXCEPT !.new_line = n, !.rows = rs]

\* a removed line after a file header was read and left the parser as the
\* header had set it
C15_Witness ==
    /\ pc = "parse_returned"
    /\ splitlines(diff_text) = <<Str(<<"d","i","f","f"," ","-","-","g","i","t"," ","a"," ","b">>),
                                 Str(<<"-","y">>)>>
    /\ parser = [current_path |-> <<98>>, new_line |-> NoInt, rows |-> <<>>, raised |-> None]

PositionsValid(fs) ==
    \A i \in 1..Len(fs) : fs[i].line >= 1 /\ fs[i].col >= 1 /\ fs[i].codepoint >= 0

\* rows as a hunk with added lines gives them: the added line `x`, a
\* zero-width space and a no-break space at line n of the file p
AddedRowAt(n) == << <<Str(<<"p">>), n, <<120, 8203, 160>>>> >>

\* C16: every Finding of every scan mode, from a full-file scan or from a
\* diff row, has line >= 1, col >= 1 and codepoint >= 0, for every file
\* content and every diff text git can return.
C16_FindingPositions ==
    /\ PositionsValid(findings)
    /\ pc = "parse_args"
          => \A n \in {1, 7} :
                /\ PositionsValid(DiffFindings(AddedRowAt(n)))
                /\ Len(DiffFindings(AddedRowAt(n))) = 2

\* a run has ended with a finding at line 3, column 1 of an untracked file
\* and one at column 2 of another
C16_Witness ==
    /\ pc = "exit"
    /\ exit_code = Box(1)
    /\ \E i \in 1..Len(findings) : findings[i].line = 3 /\ findings[i].col = 1
    /\ \E i \in 1..Len(findings) : findings[i].line = 1 /\ findings[i].col = 2

\* C17: the findings of one call scan(path, text, start_line) are in
\* document order: from each finding to the next (line, col) strictly
\* increases lexicographically, every line is >= start_line, and no two
\* findings share a (line, col).
C17_DocumentOrder ==
    pc = "scan_returned"
        => /\ \A i \in 1..(Len(scanned) - 1) :
                 \/ scanned[i].line < scanned[i + 1].line
                 \/ /\ scanned[i].line = scanned[i + 1].line
                    /\ scanned[i].col < scanned[i + 1].col
           /\ \A i \in 1..Len(scanned) : scanned[i].line >= start_line
           /\ \A i \in 1..Len(scanned) : \A j \in 1..Len(scanned) :
                 (scanned[i].line = scanned[j].line /\ scanned[i].col = scanned[j].col)
                     => i = j

\* a scan from line 7 has returned a finding of line 7 and then one of
\* line 8
C17_Witness ==
    /\ pc = "scan_returned"
    /\ start_line = 7
    /\ Len(scanned) = 2
    /\ scanned[1].line = 7 /\ scanned[1].col = 1
    /\ scanned[2].line = 8 /\ scanned[2].col = 1

\* C18: render(line, max_length) returns at most max_length characters; it
\* equals the escaped form of the line when that form has at most max_length
\* characters, and otherwise is a prefix of the escaped form followed by the
\* truncation marker `...`.
C18_RenderWithinMaxLength ==
    pc = "render_returned"
        => /\ Len(render_result) <= render_max
           /\ Len(UnicodeEscape(render_arg)) <= render_max
                 => render_result = UnicodeEscape(render_arg)
           /\ Len(UnicodeEscape(render_arg)) > render_max
                 => \E k \in 0..Len(UnicodeEscape(render_arg)) :
                       render_result = SubSeq(UnicodeEscape(render_arg), 1, k)
                                           \o Str(<<".", ".", ".">>)

====
